---- MODULE Spec2Model ----
(***************************************************************************)
(* Resource allocator: the App component's state (resource pools, project *)
(* list, Assignment Table, the localStorage blob) and its handlers         *)
(* handleFileUpload, handleDrop, handleSave, handleLoad, handleExportPDF,  *)
(* in the two variants the repository holds:                               *)
(*   variant 4  (4 roles, a drop moves, import wires initial assignments)  *)
(*   variant 3  (3 roles, a drop adds, import leaves the buckets empty)    *)
(*                                                                         *)
(* A JavaScript string is a sequence of characters; a character is a       *)
(* one-element token such as "A", "a", " ".  Header cells use whole-word   *)
(* tokens ("Projects", "projects"), which toLowerCase maps as a unit.      *)
(***************************************************************************)
EXTENDS Integers, Sequences, FiniteSets, TLC

\* ----------------------------------------------------------------- bounds
\* Most data lines a CSV file of the model has after its header line.
MaxRows == 2
\* Most user events (imports, drops, saves, loads, exports) in a behaviour.
MaxSteps == 3

\* ---------------------------------------------------------------- strings
WhiteSpace == {" "}

\* String.prototype.toLowerCase, character by character.
LowerChar(c) ==
    CASE c = "A" -> "a"
      [] c = "B" -> "b"
      [] c = "P" -> "p"
      [] c = "Q" -> "q"
      [] c = "Projects" -> "projects"
      [] c = "PROGRAMMERS" -> "programmers"
      [] c = "Project_Lead" -> "project_lead"
      [] OTHER -> c

toLowerCase(s) == [i \in 1..Len(s) |-> LowerChar(s[i])]

RECURSIVE trimStart(_)
trimStart(s) ==
    IF s # <<>> /\ Head(s) \in WhiteSpace THEN trimStart(Tail(s)) ELSE s

RECURSIVE trimEnd(_)
trimEnd(s) ==
    IF s # <<>> /\ s[Len(s)] \in WhiteSpace
    THEN trimEnd(SubSeq(s, 1, Len(s) - 1))
    ELSE s

\* String.prototype.trim
trim(s) == trimEnd(trimStart(s))

\* s.replace(/\s+/g, '-'): every maximal run of whitespace becomes one '-'.
RECURSIVE replaceWhitespaceRuns(_)
replaceWhitespaceRuns(s) ==
    IF s = <<>> THEN <<>>
    ELSE IF Head(s) \in WhiteSpace
         THEN <<"-">> \o replaceWhitespaceRuns(trimStart(s))
         ELSE <<Head(s)>> \o replaceWhitespaceRuns(Tail(s))

\* A plausible slip: case folding only, whitespace left as it is.
generateIdNoSlug(name) == toLowerCase(name)

generateId(name) == replaceWhitespaceRuns(toLowerCase(name))

\* ------------------------------------------------------------ JS helpers
\* null / undefined, kept apart from every string of the model.
Null == <<"null">>

\* JavaScript truthiness of a string-or-null value.
Truthy(v) == v # Null /\ v # <<>>

\* Array.prototype.includes
includes(arr, x) == \E i \in 1..Len(arr) : arr[i] = x

\* Array.prototype.filter(id => id !== x)
RECURSIVE filterOut(_, _)
filterOut(arr, x) ==
    IF arr = <<>> THEN <<>>
    ELSE IF Head(arr) = x THEN filterOut(Tail(arr), x)
         ELSE <<Head(arr)>> \o filterOut(Tail(arr), x)

\* Set.prototype.add on an insertion-ordered Set, kept as the sequence
\* Array.from(set) yields.
setAdd(set, x) == IF includes(set, x) THEN set ELSE Append(set, x)

\* Array.prototype.indexOf, 0-based, -1 when absent.
RECURSIVE indexOfFrom(_, _, _)
indexOfFrom(arr, x, i) ==
    IF i > Len(arr) THEN -1
    ELSE IF arr[i] = x THEN i - 1
         ELSE indexOfFrom(arr, x, i + 1)

indexOf(arr, x) == indexOfFrom(arr, x, 1)

\* values[index]?.trim(), with undefined (index -1 or past the end) read as
\* the empty string: both are falsy.
cellAt(values, index) ==
    IF index >= 0 /\ index < Len(values) THEN trim(values[index + 1]) ELSE <<>>

\* ------------------------------------------------------------------ roles
\* src/types.ts: enum ResourceType, 4-role and 3-role variants.
Roles4 == <<"PROGRAMMER", "QA", "PROJECT_MANAGER", "PROJECT_LEAD">>
Roles3 == <<"PROGRAMMER", "QA", "PROJECT_MANAGER">>

RoleSet(roles) == {roles[i] : i \in 1..Len(roles)}

\* The object literal { [ResourceType.X]: [], ... } of a fresh project entry.
emptyBuckets(roles) == [r \in RoleSet(roles) |-> <<>>]

\* ------------------------------------------------------------- CSV input
\* content is the text of the file as a sequence of lines, a line being the
\* sequence of cells line.split(',') yields (never empty: a line without a
\* comma is one cell).
isBlankLine(line) == Len(line) = 1 /\ trim(line[1]) = <<>>

RECURSIVE dropLeadingBlank(_)
dropLeadingBlank(lines) ==
    IF lines # <<>> /\ isBlankLine(Head(lines))
    THEN dropLeadingBlank(Tail(lines))
    ELSE lines

RECURSIVE dropTrailingBlank(_)
dropTrailingBlank(lines) ==
    IF lines # <<>> /\ isBlankLine(lines[Len(lines)])
    THEN dropTrailingBlank(SubSeq(lines, 1, Len(lines) - 1))
    ELSE lines

\* content.trim().split('\n'): leading and trailing blank lines go with the
\* surrounding whitespace; an all-blank text splits into one empty line.
\* (The blanks trim() removes inside the first and last line are removed
\* again by the per-cell trim of every reader below.)
splitLines(content) ==
    LET t == dropTrailingBlank(dropLeadingBlank(content))
    IN  IF t = <<>> THEN << << <<>> >> >> ELSE t

\* lines.filter(line => line.trim())
RECURSIVE filterNonBlank(_)
filterNonBlank(lines) ==
    IF lines = <<>> THEN <<>>
    ELSE IF isBlankLine(Head(lines)) THEN filterNonBlank(Tail(lines))
         ELSE <<Head(lines)>> \o filterNonBlank(Tail(lines))

\* headerLine.split(',').map(h => h.trim()) of the trimmed, lower-cased line.
parseHeader(line) == [i \in 1..Len(line) |-> trim(toLowerCase(line[i]))]

\* names.map(name => ({ id: generateId(name), name }))
toResources(names) ==
    [i \in 1..Len(names) |-> [id |-> generateId(names[i]), name |-> names[i]]]

\* new Map(resources.map(r => [r.name, r.id])).get(name): the id of the last
\* resource of that name, undefined when there is none.
RECURSIVE nameToId(_, _)
nameToId(resources, name) ==
    IF resources = <<>> THEN Null
    ELSE IF resources[Len(resources)].name = name
         THEN resources[Len(resources)].id
         ELSE nameToId(SubSeq(resources, 1, Len(resources) - 1), name)

\* The result of a failed import: the catch block sets no state.
ParseError == [ok |-> FALSE]

\* ------------------------------------------- handleFileUpload, variant 4
\* The header.indexOf(...) block.
columnIndexes4(header) ==
    [ programmerIndex   |-> indexOf(header, <<"programmers">>),
      qaIndex           |-> indexOf(header, <<"qa">>),
      pmIndex           |-> indexOf(header, <<"pm">>),
      leadIndex         |-> indexOf(header, <<"project_leads">>),
      projectIndex      |-> indexOf(header, <<"projects">>),
      assignedPmIndex   |-> indexOf(header, <<"project_manager">>),
      assignedLeadIndex |-> indexOf(header, <<"project_lead">>) ]

\* if (index > -1 && values[index]?.trim()) names.add(values[index].trim())
addName(names, values, index) ==
    IF index > -1 /\ Truthy(cellAt(values, index))
    THEN setAdd(names, cellAt(values, index))
    ELSE names

\* "1. Populate all resource pools": the four name Sets after the loop.
RECURSIVE collectNames4(_, _, _)
collectNames4(lines, ix, acc) ==
    IF lines = <<>> THEN acc
    ELSE LET values == Head(lines)
             next == [ programmerNames |->
                           addName(acc.programmerNames, values, ix.programmerIndex),
                       qaNames |-> addName(acc.qaNames, values, ix.qaIndex),
                       pmNames |->
                           addName(addName(acc.pmNames, values, ix.pmIndex),
                                   values, ix.assignedPmIndex),
                       leadNames |->
                           addName(addName(acc.leadNames, values, ix.leadIndex),
                                   values, ix.assignedLeadIndex) ]
         IN  collectNames4(Tail(lines), ix, next)

\* A plausible slip: the project list without its projectSet guard.
RECURSIVE createProjects4NoDedup(_, _, _)
createProjects4NoDedup(lines, projectIndex, acc) ==
    IF lines = <<>> THEN acc
    ELSE LET projectName == cellAt(Head(lines), projectIndex)
         IN  createProjects4NoDedup(Tail(lines), projectIndex,
                 IF Truthy(projectName)
                 THEN Append(acc, [id |-> generateId(projectName), name |-> projectName])
                 ELSE acc)

\* A plausible slip: a Project for a row that names none.
RECURSIVE createProjects4AnyRow(_, _, _)
createProjects4AnyRow(lines, projectIndex, acc) ==
    IF lines = <<>> THEN acc
    ELSE LET projectName == cellAt(Head(lines), projectIndex)
             seen == \E i \in 1..Len(acc) : acc[i].name = projectName
         IN  createProjects4AnyRow(Tail(lines), projectIndex,
                 IF ~seen
                 THEN Append(acc, [id |-> generateId(projectName), name |-> projectName])
                 ELSE acc)

\* "2. Create projects": one Project per distinct project name (projectSet).
RECURSIVE createProjects4(_, _, _)
createProjects4(lines, projectIndex, acc) ==
    IF lines = <<>> THEN acc
    ELSE LET projectName == cellAt(Head(lines), projectIndex)
             seen == \E i \in 1..Len(acc) : acc[i].name = projectName
         IN  createProjects4(Tail(lines), projectIndex,
                 IF Truthy(projectName) /\ ~seen
                 THEN Append(acc, [id |-> generateId(projectName), name |-> projectName])
                 ELSE acc)

\* A plausible slip: the table with an entry no project stands for.
initAssignmentsExtraKey(newProjects, roles) ==
    [pid \in {newProjects[i].id : i \in 1..Len(newProjects)} \cup {<<>>} |->
        emptyBuckets(roles)]

\* newProjects.forEach(project => initialAssignments[project.id] = {...})
initAssignments(newProjects, roles) ==
    [pid \in {newProjects[i].id : i \in 1..Len(newProjects)} |-> emptyBuckets(roles)]

\* A plausible slip: assignResource without its includes() guard.
assignResourceNoGuard(table, allResources, projectId, name, type) ==
    IF Truthy(name) /\ Truthy(nameToId(allResources, name))
    THEN [table EXCEPT ![projectId][type] = Append(@, nameToId(allResources, name))]
    ELSE table

\* assignResource(name, type) of one row.
assignResource(table, allResources, projectId, name, type) ==
    IF Truthy(name)
    THEN LET resourceId == nameToId(allResources, name)
         IN  IF Truthy(resourceId) /\ ~includes(table[projectId][type], resourceId)
             THEN [table EXCEPT ![projectId][type] = Append(@, resourceId)]
             ELSE table
    ELSE table

\* "3. Create initial assignments": the second lines.forEach.
RECURSIVE wireAssignments4(_, _, _, _)
wireAssignments4(lines, ix, allResources, table) ==
    IF lines = <<>> THEN table
    ELSE LET values == Head(lines)
             projectName == cellAt(values, ix.projectIndex)
             projectId == generateId(projectName)
             programmerName == cellAt(values, ix.programmerIndex)
             qaName == cellAt(values, ix.qaIndex)
             pmName == cellAt(values, ix.assignedPmIndex)
             leadName == cellAt(values, ix.assignedLeadIndex)
             t1 == assignResource(table, allResources, projectId, programmerName, "PROGRAMMER")
             t2 == assignResource(t1, allResources, projectId, qaName, "QA")
             t3 == assignResource(t2, allResources, projectId, pmName, "PROJECT_MANAGER")
             t4 == assignResource(t3, allResources, projectId, leadName, "PROJECT_LEAD")
         IN  wireAssignments4(Tail(lines), ix, allResources,
                              IF Truthy(projectName) THEN t4 ELSE table)

\* handleFileUpload(content) of the 4-role App: the model it sets, or ParseError.
handleFileUpload4(content) ==
    LET lines0 == filterNonBlank(splitLines(content))
    IN  IF lines0 = <<>> THEN ParseError
        ELSE
        LET header == parseHeader(Head(lines0))
            lines == Tail(lines0)
            ix == columnIndexes4(header)
            names == collectNames4(lines, ix,
                         [programmerNames |-> <<>>, qaNames |-> <<>>,
                          pmNames |-> <<>>, leadNames |-> <<>>])
            newProgrammers == toResources(names.programmerNames)
            newQas == toResources(names.qaNames)
            newPms == toResources(names.pmNames)
            newLeads == toResources(names.leadNames)
            allResources == newProgrammers \o newQas \o newPms \o newLeads
            newProjects == createProjects4(lines, ix.projectIndex, <<>>)
        IN  [ ok |-> TRUE,
              programmers |-> newProgrammers,
              qas |-> newQas,
              projectManagers |-> newPms,
              projectLeads |-> newLeads,
              projects |-> newProjects,
              assignments |-> wireAssignments4(lines, ix, allResources,
                                  initAssignments(newProjects, Roles4)) ]

\* ------------------------------------------- handleFileUpload, variant 3
\* A plausible slip: a required set that forgets qa and pm.
requiredColumnsShort == << <<"projects">>, <<"programmers">> >>

requiredColumns == << <<"projects">>, <<"programmers">>, <<"qa">>, <<"pm">> >>

\* The first lines.forEach of the 3-role App: blank lines are skipped, the
\* indexes are not tested (values[-1] is undefined).
RECURSIVE collectNames3(_, _, _)
collectNames3(lines, ix, acc) ==
    IF lines = <<>> THEN acc
    ELSE LET values == Head(lines)
             add(names, index) ==
                 IF Truthy(cellAt(values, index))
                 THEN setAdd(names, cellAt(values, index))
                 ELSE names
             next == [ programmerNames |-> add(acc.programmerNames, ix.programmerIndex),
                       qaNames |-> add(acc.qaNames, ix.qaIndex),
                       pmNames |-> add(acc.pmNames, ix.pmIndex) ]
         IN  collectNames3(Tail(lines), ix,
                           IF isBlankLine(values) THEN acc ELSE next)

\* The second lines.forEach of the 3-role App: one Project per row that names
\* a project, with its projectLeadId looked up among the programmers.
RECURSIVE createProjects3(_, _, _, _)
createProjects3(lines, ix, newProgrammers, acc) ==
    IF lines = <<>> THEN acc
    ELSE LET values == Head(lines)
             projectName == cellAt(values, ix.projectIndex)
             leadName == IF ix.leadIndex > -1 THEN cellAt(values, ix.leadIndex) ELSE Null
             projectLeadId == IF Truthy(leadName)
                              THEN nameToId(newProgrammers, leadName)
                              ELSE Null
             project == [ id |-> generateId(projectName), name |-> projectName,
                          projectLeadId |-> projectLeadId ]
         IN  createProjects3(Tail(lines), ix, newProgrammers,
                 IF ~isBlankLine(values) /\ Truthy(projectName)
                 THEN Append(acc, project)
                 ELSE acc)

\* handleFileUpload(content) of the 3-role App.
handleFileUpload3(content) ==
    LET lines0 == splitLines(content)
        headerLine == Head(lines0)
        header == parseHeader(headerLine)
        lines == Tail(lines0)
        ix == [ projectIndex    |-> indexOf(header, <<"projects">>),
                programmerIndex |-> indexOf(header, <<"programmers">>),
                qaIndex         |-> indexOf(header, <<"qa">>),
                pmIndex         |-> indexOf(header, <<"pm">>),
                leadIndex       |-> indexOf(header, <<"project_lead">>) ]
        names == collectNames3(lines, ix,
                     [programmerNames |-> <<>>, qaNames |-> <<>>, pmNames |-> <<>>])
        newProgrammers == toResources(names.programmerNames)
        newProjects == createProjects3(lines, ix, newProgrammers, <<>>)
    IN  IF isBlankLine(headerLine) THEN ParseError
        ELSE IF \E c \in 1..Len(requiredColumns) : ~includes(header, requiredColumns[c])
        THEN ParseError
        ELSE [ ok |-> TRUE,
               programmers |-> newProgrammers,
               qas |-> toResources(names.qaNames),
               projectManagers |-> toResources(names.pmNames),
               projectLeads |-> <<>>,
               projects |-> newProjects,
               assignments |-> initAssignments(newProjects, Roles3) ]

\* ------------------------------------------------------------ the heap
\* handleDrop works on JavaScript objects: the table object, one entry
\* object per project and one array per bucket.  A heap holds the three
\* kinds of object by reference, so that sharing between the table React
\* hands to the updater (prev) and the table it returns is visible.
\*   tables  : table ref  -> [project id -> entry ref]
\*   entries : entry ref  -> [role -> array ref]
\*   arrays  : array ref  -> sequence of resource ids
\* References are <<generation, ...>>: generation 0 holds the objects of
\* prev, 1 the objects JSON.parse creates, 2 the arrays filter() creates.
PrevRef == 0

\* The object graph of a table value, at generation gen.
allocTable(table, gen) ==
    [ tables  |-> (gen :> [pid \in DOMAIN table |-> <<gen, pid>>]),
      entries |-> [e \in {<<gen, pid>> : pid \in DOMAIN table} |->
                      [r \in DOMAIN table[e[2]] |-> <<gen, e[2], r>>]],
      arrays  |-> [a \in UNION {{<<gen, pid, r>> : r \in DOMAIN table[pid]} :
                                pid \in DOMAIN table} |->
                      table[a[2]][a[3]]] ]

\* The table value reachable from a table reference.
readTable(heap, ref) ==
    [pid \in DOMAIN heap.tables[ref] |->
        LET entry == heap.entries[heap.tables[ref][pid]]
        IN  [r \in DOMAIN entry |-> heap.arrays[entry[r]]]]

\* A plausible slip: no copy at all, the updater mutates prev in place.
jsonCloneAlias(heap, ref) == [heap |-> heap, ref |-> ref]

\* A plausible slip: a shallow copy ({ ...prev }), entries and arrays shared.
jsonCloneShallow(heap, ref) ==
    [ heap |-> [heap EXCEPT !.tables = (1 :> heap.tables[ref]) @@ @],
      ref  |-> 1 ]

\* JSON.parse(JSON.stringify(prev)): a fresh table, fresh entries and fresh
\* arrays with the same content.
jsonClone(heap, ref) ==
    LET fresh == allocTable(readTable(heap, ref), 1)
    IN  [ heap |-> [ tables  |-> fresh.tables @@ heap.tables,
                     entries |-> fresh.entries @@ heap.entries,
                     arrays  |-> fresh.arrays @@ heap.arrays ],
          ref  |-> 1 ]

\* obj[projectId]?.[type]: the array reference, Null for undefined.
bucketRef(heap, ref, projectId, type) ==
    IF projectId \in DOMAIN heap.tables[ref]
       /\ type \in DOMAIN heap.entries[heap.tables[ref][projectId]]
    THEN heap.entries[heap.tables[ref][projectId]][type]
    ELSE Null

\* obj[projectId][type] = obj[projectId][type].filter(id => id !== resourceId):
\* a new array, stored in the entry object.
removeFromBucket(heap, ref, projectId, type, resourceId) ==
    LET entryRef == heap.tables[ref][projectId]
        old == heap.entries[entryRef][type]
        new == <<2, projectId, type>>
    IN  [heap EXCEPT !.arrays = (new :> filterOut(heap.arrays[old], resourceId)) @@ @,
                     !.entries[entryRef][type] = new]

\* array.push(resourceId): the array object itself changes.
pushToBucket(heap, arrayRef, resourceId) ==
    [heap EXCEPT !.arrays[arrayRef] = Append(@, resourceId)]

\* ------------------------------------------------------------ handleDrop
\* A move request: what the drop handler reads from the drag event
\* (resourceId, resourceType, sourceProjectId: strings, '' when not set) and
\* from its drop zone (targetProjectId: a project id or null, targetType).
Unassigned == <<"unassigned">>

\* A plausible slip: the add without its includes() guard.
addToTargetNoGuard(heap, ref, q, type) ==
    LET targetAssignments == bucketRef(heap, ref, q.targetProjectId, type)
    IN  IF targetAssignments # Null
        THEN pushToBucket(heap, targetAssignments, q.resourceId)
        ELSE heap

\* "Add to target if it's a project" / "Dropping onto a project board adds
\* the resource to that project": push unless the bucket has the id.  (The
\* tables of the model give every entry every role of its App, so the
\* 3-role App's unguarded newAssignments[id][type].includes never throws.)
addToTarget(heap, ref, q, type) ==
    LET targetAssignments == bucketRef(heap, ref, q.targetProjectId, type)
    IN  IF targetAssignments # Null
           /\ ~includes(heap.arrays[targetAssignments], q.resourceId)
        THEN pushToBucket(heap, targetAssignments, q.resourceId)
        ELSE heap

\* A plausible slip: the removal empties the whole source bucket.
removeFromSourceAll(heap, ref, q, type) ==
    IF bucketRef(heap, ref, q.sourceProjectId, type) # Null
    THEN [heap EXCEPT !.arrays[bucketRef(heap, ref, q.sourceProjectId, type)] = <<>>]
    ELSE heap

\* A plausible slip: the source bucket keeps the id.
removeFromSourceNever(heap, ref, q, type) == heap

\* "Remove from source if it was a project": filter the id out of the
\* (sourceProjectId, type) bucket when that bucket exists.
removeFromSource(heap, ref, q, type) ==
    IF bucketRef(heap, ref, q.sourceProjectId, type) # Null
    THEN removeFromBucket(heap, ref, q.sourceProjectId, type, q.resourceId)
    ELSE heap

\* The setAssignments updater of the 4-role App (move semantics): remove from
\* the source project, then add to the target project, both in the bucket of
\* targetResourceType.
dropUpdater4(heap, q) ==
    LET c == jsonClone(heap, PrevRef)
        h1 == IF Truthy(q.sourceProjectId) /\ q.sourceProjectId # Unassigned
              THEN removeFromSource(c.heap, c.ref, q, q.targetType)
              ELSE c.heap
        h2 == IF Truthy(q.targetProjectId)
              THEN addToTarget(h1, c.ref, q, q.targetType)
              ELSE h1
    IN  [heap |-> h2, ref |-> c.ref]

\* A plausible slip: the 3-role updater without its removal branch.
dropUpdater3AddOnly(heap, q) ==
    LET c == jsonClone(heap, PrevRef)
        h1 == IF Truthy(q.targetProjectId)
              THEN addToTarget(c.heap, c.ref, q, q.resourceType)
              ELSE c.heap
    IN  [heap |-> h1, ref |-> c.ref]

\* The setAssignments updater of the 3-role App (add semantics): a drop on a
\* project only adds; a drop on the pool removes from the source project;
\* both in the bucket of resourceType.
dropUpdater3(heap, q) ==
    LET c == jsonClone(heap, PrevRef)
        h1 == IF Truthy(q.targetProjectId)
              THEN addToTarget(c.heap, c.ref, q, q.resourceType)
              ELSE IF Truthy(q.sourceProjectId) /\ q.sourceProjectId # Unassigned
                   THEN removeFromSource(c.heap, c.ref, q, q.resourceType)
                   ELSE c.heap
    IN  [heap |-> h1, ref |-> c.ref]

\* A plausible slip: the handler without its role check.
typeMismatchIgnored(q) == FALSE

\* if (resourceType !== targetResourceType) return;
typeMismatch(q) == q.resourceType # q.targetType

\* if (!resourceId || !resourceTypeStr) return;
noDragData(q) == ~Truthy(q.resourceId) \/ q.resourceType = ""

\* handleDrop(target)(e) on the table prev, in variant v:
\*   new : the table setAssignments installs (prev itself on an early return)
\*   old : what an observer still holding prev sees afterwards
handleDrop(v, prev, q) ==
    IF noDragData(q) \/ typeMismatch(q)
    THEN [new |-> prev, old |-> prev]
    ELSE LET heap == allocTable(prev, PrevRef)
             r == IF v = 4 THEN dropUpdater4(heap, q) ELSE dropUpdater3(heap, q)
         IN  [new |-> readTable(r.heap, r.ref), old |-> readTable(r.heap, PrevRef)]

\* ------------------------------------------------- resourceProjectCounts
\* Object.values(assignments) ... Object.values(project).flat(): every id of
\* every bucket, one entry per occurrence (the order does not matter here).
RECURSIVE flattenBuckets(_, _)
flattenBuckets(table, keys) ==
    IF keys = {} THEN <<>>
    ELSE LET k == CHOOSE x \in keys : TRUE
         IN  table[k[1]][k[2]] \o flattenBuckets(table, keys \ {k})

bucketKeys(table) ==
    UNION {{<<pid, r>> : r \in DOMAIN table[pid]} : pid \in DOMAIN table}

allBucketIds(table) == flattenBuckets(table, bucketKeys(table))

poolIds(allResources) == {allResources[i].id : i \in 1..Len(allResources)}

\* A plausible slip: membership instead of a running count.
computeCountsFlag(allResources, table) ==
    LET flat == allBucketIds(table)
    IN  [id \in poolIds(allResources) \cup {flat[i] : i \in 1..Len(flat)} |->
            IF includes(flat, id) THEN 1 ELSE 0]

\* counts.set(r.id, 0) for every resource, then one increment per id met in
\* the buckets: a Map from id to its number of occurrences.
computeCounts(allResources, table) ==
    LET flat == allBucketIds(table)
    IN  [id \in poolIds(allResources) \cup {flat[i] : i \in 1..Len(flat)} |->
            Cardinality({i \in 1..Len(flat) : flat[i] = id})]

\* counts.get(id) || 0
countOf(counts, id) == IF id \in DOMAIN counts THEN counts[id] ELSE 0

\* A plausible slip: a useMemo whose dependency list omits assignments.
useMemoCountsStale(oldDeps, newDeps, oldCounts) ==
    IF SubSeq(oldDeps, 1, 4) = SubSeq(newDeps, 1, 4)
    THEN oldCounts
    ELSE computeCounts(newDeps[1] \o newDeps[2] \o newDeps[3] \o newDeps[4], newDeps[5])

\* useMemo(() => counts, [programmers, qas, projectManagers, projectLeads,
\* assignments]): recomputed on the render after any of the five changed.
useMemoCounts(oldDeps, newDeps, oldCounts) ==
    IF oldDeps = newDeps
    THEN oldCounts
    ELSE computeCounts(newDeps[1] \o newDeps[2] \o newDeps[3] \o newDeps[4], newDeps[5])

\* ------------------------------------------------------- handleExportPDF
withType(resources, type) ==
    [i \in 1..Len(resources) |->
        [id |-> resources[i].id, name |-> resources[i].name, type |-> type]]

\* allResourcesWithTypes
allResourcesWithTypes(m) ==
    withType(m.programmers, "Programmer") \o withType(m.qas, "QA Engineer")
    \o withType(m.projectManagers, "Project Manager")
    \o withType(m.projectLeads, "Project Lead")

\* One step of a stable sort by non-increasing count.
RECURSIVE insertByCount(_, _, _)
insertByCount(sorted, r, counts) ==
    IF sorted = <<>> THEN <<r>>
    ELSE IF countOf(counts, Head(sorted).id) >= countOf(counts, r.id)
         THEN <<Head(sorted)>> \o insertByCount(Tail(sorted), r, counts)
         ELSE <<r>> \o sorted

\* .sort((a, b) => b.count - a.count), stable.
RECURSIVE sortByCountDesc(_, _)
sortByCountDesc(resources, counts) ==
    IF resources = <<>> THEN <<>>
    ELSE insertByCount(
             sortByCountDesc(SubSeq(resources, 1, Len(resources) - 1), counts),
             resources[Len(resources)], counts)

\* unassignedResources
unassignedOf(m, counts) ==
    SelectSeq(allResourcesWithTypes(m), LAMBDA r : countOf(counts, r.id) = 0)

\* A plausible slip: the over-utilised threshold taken as "3 or more".
overUtilizedOfAtLeast3(m, counts) ==
    sortByCountDesc(
        SelectSeq(allResourcesWithTypes(m), LAMBDA r : countOf(counts, r.id) >= 3),
        counts)

\* overUtilizedResources
overUtilizedOf(m, counts) ==
    sortByCountDesc(
        SelectSeq(allResourcesWithTypes(m), LAMBDA r : countOf(counts, r.id) > 3),
        counts)

\* String.prototype.includes: t occurs in s as a run of characters.
stringIncludes(s, t) ==
    \E start \in 0..(Len(s) - Len(t)) : SubSeq(s, start + 1, start + Len(t)) = t

\* filterByName of ResourcePool
filterByName(r, searchTerm) ==
    stringIncludes(toLowerCase(r.name), toLowerCase(searchTerm))

\* unassignedResources of the ResourcePool of the 4-role App: per pool, the
\* resources whose id is in no bucket and whose name matches the search box.
unassignedResources(m, searchTerm) ==
    LET assignedIds == allBucketIds(m.assignments)
        shown(pool) ==
            SelectSeq(pool, LAMBDA r : ~includes(assignedIds, r.id)
                                       /\ filterByName(r, searchTerm))
    IN  [ programmers |-> shown(m.programmers),
          qas |-> shown(m.qas),
          projectManagers |-> shown(m.projectManagers),
          projectLeads |-> shown(m.projectLeads) ]

NoReport == [produced |-> FALSE]

\* A plausible slip: a gate that never asks.
needsConfirmNever(m, counts) == FALSE

\* if (unassignedResources.length > 0) { const proceed = window.confirm(...) }
needsConfirm(m, counts) == Len(unassignedOf(m, counts)) > 0

\* resourceMap.get(id): the Map is built from [id, resource] pairs in pool
\* order, a later pair replacing an earlier one with the same id.  The
\* resource in a one-element list, the empty list for undefined.
resourceMapGet(all, id) ==
    LET hits == {i \in 1..Len(all) : all[i].id = id}
    IN  IF hits = {} THEN <<>>
        ELSE <<all[CHOOSE i \in hits : \A j \in hits : j <= i]>>

\* bucket.map(id => resourceMap.get(id)).filter(Boolean), as names
RECURSIVE resolvedNames(_, _)
resolvedNames(all, bucket) ==
    IF bucket = <<>> THEN <<>>
    ELSE LET found == resourceMapGet(all, Head(bucket))
         IN  (IF found = <<>> THEN <<>> ELSE <<found[1].name>>)
             \o resolvedNames(all, Tail(bucket))

NotAvailable == <<"N/A">>

\* getNames(type) of the 4-role App: every resolved name, or 'N/A'.
getNames(all, bucket) ==
    IF resolvedNames(all, bucket) = <<>> THEN <<NotAvailable>>
    ELSE resolvedNames(all, bucket)

\* pmName of the 3-role App: the name of assignedPmResources[0], or 'N/A'.
pmName(all, bucket) ==
    IF resolvedNames(all, bucket) = <<>> THEN <<NotAvailable>>
    ELSE <<Head(resolvedNames(all, bucket))>>

\* leadName of the 3-role App: the resource project.projectLeadId names.
leadName(all, project) ==
    IF "projectLeadId" \in DOMAIN project /\ Truthy(project.projectLeadId)
       /\ resourceMapGet(all, project.projectLeadId) # <<>>
    THEN <<resourceMapGet(all, project.projectLeadId)[1].name>>
    ELSE <<NotAvailable>>

\* projectAssignments[type] is undefined for a role the loop reads: .map
\* throws a TypeError and handleExportPDF ends without a document.
rosterThrows(v, m) ==
    \E i \in 1..Len(m.projects) :
        /\ m.projects[i].id \in DOMAIN m.assignments
        /\ ~(RoleSet(IF v = 4 THEN Roles4 ELSE Roles3)
                 \subseteq DOMAIN m.assignments[m.projects[i].id])

\* The lines and the table the projects.forEach loop prints for one project.
rosterOf(v, m, project) ==
    LET all == allResourcesWithTypes(m)
        entry == m.assignments[project.id]
    IN  [ project     |-> project.name,
          managers    |-> IF v = 4 THEN getNames(all, entry["PROJECT_MANAGER"])
                          ELSE pmName(all, entry["PROJECT_MANAGER"]),
          leads       |-> IF v = 4 THEN getNames(all, entry["PROJECT_LEAD"])
                          ELSE leadName(all, project),
          programmers |-> resolvedNames(all, entry["PROGRAMMER"]),
          qas         |-> resolvedNames(all, entry["QA"]) ]

\* projects.forEach(project => { if (!projectAssignments) return; ... })
RECURSIVE rostersOf(_, _, _)
rostersOf(v, m, list) ==
    IF list = <<>> THEN <<>>
    ELSE (IF Head(list).id \in DOMAIN m.assignments
          THEN <<rosterOf(v, m, Head(list))>> ELSE <<>>)
         \o rostersOf(v, m, Tail(list))

\* What handleExportPDF writes into the document it saves.
buildReport(v, m, counts) ==
    [ produced     |-> TRUE,
      counts       |-> counts,
      rosters      |-> rostersOf(v, m, m.projects),
      unassigned   |-> unassignedOf(m, counts),
      overUtilized |-> overUtilizedOf(m, counts) ]

\* ------------------------------------------------- handleSave, handleLoad
\* localStorage.getItem(STORAGE_KEY): null, or the stored text.  A text is
\* kept as the value JSON.parse gives for it (strings, null, arrays and plain
\* objects are rebuilt as written), or as unparseable.
NoBlob == [stored |-> FALSE]
CorruptBlob == [stored |-> TRUE, parses |-> FALSE]

\* A plausible slip: a stateToSave that forgets the table.
stateToSaveNoAssignments(v, m) ==
    [ programmers |-> m.programmers, qas |-> m.qas,
      projectManagers |-> m.projectManagers, projects |-> m.projects ]

\* stateToSave of the 4-role and of the 3-role App.
stateToSave(v, m) ==
    IF v = 4
    THEN [ programmers |-> m.programmers, qas |-> m.qas,
           projectManagers |-> m.projectManagers, projectLeads |-> m.projectLeads,
           projects |-> m.projects, assignments |-> m.assignments ]
    ELSE [ programmers |-> m.programmers, qas |-> m.qas,
           projectManagers |-> m.projectManagers,
           projects |-> m.projects, assignments |-> m.assignments ]

\* JSON.stringify(stateToSave), as localStorage keeps it.
jsonBlob(value) == [stored |-> TRUE, parses |-> TRUE, value |-> value]

\* savedState.field || fallback: the fallback for an absent (undefined) field
\* and for a null one; arrays and objects, empty ones included, are truthy.
\* savedState holds the properties whose value is an array or an object; the
\* names of the properties whose value is null are kept beside it.
fieldOr(savedState, field, fallback) ==
    IF field \in DOMAIN savedState THEN savedState[field] ELSE fallback

\* The names of the properties of the parsed blob whose value is null.
nullFieldsOf(blob) == IF "nullFields" \in DOMAIN blob THEN blob.nullFields ELSE {}

\* The stored text is "null": JSON.parse gives null, no object to read
\* (savedState.programmers throws a TypeError, which the catch block of
\* handleLoad reports like a parse failure).
NullBlob == [stored |-> TRUE, parses |-> TRUE]

\* Whether handleLoad reaches its setters: a blob is stored, it parses, and
\* the parsed value has properties to read.
loadSucceeds(blob) == blob.stored /\ blob.parses /\ "value" \in DOMAIN blob

\* A plausible slip: a catch block that resets the model.
afterLoadCleared(v, prev, blob) ==
    IF loadSucceeds(blob)
    THEN [ programmers |-> fieldOr(blob.value, "programmers", <<>>),
           qas |-> fieldOr(blob.value, "qas", <<>>),
           projectManagers |-> fieldOr(blob.value, "projectManagers", <<>>),
           projectLeads |-> IF v = 4 THEN fieldOr(blob.value, "projectLeads", <<>>)
                            ELSE prev.projectLeads,
           projects |-> fieldOr(blob.value, "projects", <<>>),
           assignments |-> fieldOr(blob.value, "assignments", <<>>) ]
    ELSE [ programmers |-> <<>>, qas |-> <<>>, projectManagers |-> <<>>,
           projectLeads |-> <<>>, projects |-> <<>>, assignments |-> <<>> ]

\* A plausible slip: a load that keeps the pools it finds no field for.
afterLoadMerged(v, prev, blob) ==
    IF loadSucceeds(blob)
    THEN [ programmers |-> fieldOr(blob.value, "programmers", prev.programmers),
           qas |-> fieldOr(blob.value, "qas", prev.qas),
           projectManagers |-> fieldOr(blob.value, "projectManagers", prev.projectManagers),
           projectLeads |-> IF v = 4
                            THEN fieldOr(blob.value, "projectLeads", prev.projectLeads)
                            ELSE prev.projectLeads,
           projects |-> fieldOr(blob.value, "projects", prev.projects),
           assignments |-> fieldOr(blob.value, "assignments", prev.assignments) ]
    ELSE prev

\* The model after handleLoad: the setters of the try block on success
\* (five of them in the 3-role App, which has no projectLeads state), the
\* model as it was otherwise.
afterLoad(v, prev, blob) ==
    IF loadSucceeds(blob)
    THEN [ programmers |-> fieldOr(blob.value, "programmers", <<>>),
           qas |-> fieldOr(blob.value, "qas", <<>>),
           projectManagers |-> fieldOr(blob.value, "projectManagers", <<>>),
           projectLeads |-> IF v = 4 THEN fieldOr(blob.value, "projectLeads", <<>>)
                            ELSE prev.projectLeads,
           projects |-> fieldOr(blob.value, "projects", <<>>),
           assignments |-> fieldOr(blob.value, "assignments", <<>>) ]
    ELSE prev

\* A plausible slip: a catch block that resets the model.
afterImportCleared(prev, r) ==
    IF r.ok
    THEN [ programmers |-> r.programmers, qas |-> r.qas,
           projectManagers |-> r.projectManagers, projectLeads |-> r.projectLeads,
           projects |-> r.projects, assignments |-> r.assignments ]
    ELSE [ programmers |-> <<>>, qas |-> <<>>, projectManagers |-> <<>>,
           projectLeads |-> <<>>, projects |-> <<>>, assignments |-> <<>> ]

\* A plausible slip: an import that appends to the pools and projects it finds.
afterImportMerged(prev, r) ==
    IF r.ok
    THEN [ programmers |-> prev.programmers \o r.programmers,
           qas |-> prev.qas \o r.qas,
           projectManagers |-> prev.projectManagers \o r.projectManagers,
           projectLeads |-> prev.projectLeads \o r.projectLeads,
           projects |-> prev.projects \o r.projects,
           assignments |-> r.assignments @@ prev.assignments ]
    ELSE prev

\* The model after handleFileUpload: what its setters were given on success,
\* the model as it was when the handler threw (every throw precedes the
\* first setter, and the catch block sets nothing).
afterImport(prev, r) ==
    IF r.ok
    THEN [ programmers |-> r.programmers, qas |-> r.qas,
           projectManagers |-> r.projectManagers, projectLeads |-> r.projectLeads,
           projects |-> r.projects, assignments |-> r.assignments ]
    ELSE prev

\* A plausible slip: a drop that takes the dragged resource out of its pool.
afterDropPruned(prev, q, table) ==
    [prev EXCEPT !.assignments = table,
                 !.programmers = SelectSeq(@, LAMBDA r : r.id # q.resourceId),
                 !.qas = SelectSeq(@, LAMBDA r : r.id # q.resourceId)]

\* The model after handleDrop: setAssignments is its only setter.
afterDrop(prev, q, table) == [prev EXCEPT !.assignments = table]

\* A plausible slip: the guard of handleSave always passes.
hasDataAlways(m) == TRUE

\* programmers.length > 0 || qas.length > 0 || projects.length > 0 || ...
\* (projectLeads is always empty in the 3-role App, which has no such state).
hasData(m) ==
    \/ Len(m.programmers) > 0
    \/ Len(m.qas) > 0
    \/ Len(m.projects) > 0
    \/ Len(m.projectManagers) > 0
    \/ Len(m.projectLeads) > 0

\* ---------------------------------------------------------------- inputs
\* Person names and project names of the CSV files of the model: pairs that
\* differ by case only ("A", "a"; "P", "p") or by inner whitespace only
\* ("B b", "B  b"), with and without padding.
NameA == <<"A">>
NameLowerA == <<"a">>
NameBb == <<"B", " ", "b">>
NameBWideB == <<"B", " ", " ", "b">>
ProjectP == <<"P">>
ProjectPaddedLowerP == <<" ", "p">>
ProjectQ == <<"Q">>

\* Header lines: the lower-case five-column header both variants accept, and
\* a mixed-case, padded header with the assignment columns of the 4-role App.
HeaderFull ==
    << <<"projects">>, <<"programmers">>, <<"qa">>, <<"pm">>, <<"project_lead">> >>
HeaderMixed ==
    << <<"Projects">>, <<" ", "project_manager">>, <<"PROGRAMMERS">>, <<"Project_Lead", " ">> >>
Headers == {HeaderFull, HeaderMixed}

\* Data lines: cells in header order, short lines included, and a blank line.
SampleRows ==
    { << ProjectP, NameA, NameBb, NameA >>,
      << ProjectPaddedLowerP, NameBWideB, NameBWideB >>,
      << ProjectQ, NameA, NameA, <<>>, NameA >>,
      << <<>>, NameLowerA, <<>> >>,
      << <<" ">> >> }

RECURSIVE RowSeqs(_)
RowSeqs(n) ==
    IF n = 0 THEN {<<>>}
    ELSE LET shorter == RowSeqs(n - 1)
         IN  shorter \cup {Append(rows, r) : rows \in {s \in shorter : Len(s) = n - 1},
                                             r \in SampleRows}

\* A text of blanks only: one line, one cell.
BlankFile == << << <<" ", " ">> >> >>

\* The file contents a user may select: the empty text, a text of blanks,
\* and every header followed by at most MaxRows data lines.
Files ==
    {<<>>, BlankFile} \cup {<<h>> \o rows : h \in Headers, rows \in RowSeqs(MaxRows)}

\* The files behind the boards that drops, saves, loads and exports work on:
\* the empty text, and the full header followed by the first n board rows
\* (no project, one project, two projects with a shared resource).
BoardRows ==
    << << ProjectP, NameA, NameBb, NameA >>,
       << ProjectQ, NameA, NameA, <<>>, NameA >>,
       << ProjectPaddedLowerP, NameBWideB, NameBWideB >> >>

BoardFiles ==
    {<<>>} \cup {<<HeaderFull>> \o SubSeq(BoardRows, 1, n) :
                     n \in 0..(IF MaxRows < Len(BoardRows) THEN MaxRows ELSE Len(BoardRows))}

\* Ids no import of the model creates.
GhostResource == <<"ghost">>
GhostProject == <<"nowhere">>

\* The roles drags and drop zones of the model carry.
DragTypes == {"PROGRAMMER", "QA"}

\* What the search box of the ResourcePool may hold: nothing, or a letter.
SearchTerms == {<<>>, <<"A">>, <<"b">>}

\* ----------------------------------------------------------------- state
VARIABLES
    variant,                \* 4 or 3: which App this is
    programmers, qas, projectManagers, projectLeads,   \* useState pools
    projects,               \* useState<Project[]>
    assignments,            \* useState<Assignments>: project id -> role -> ids
    resourceProjectCounts,  \* the useMemo value of the 4-role App
    storage,                \* localStorage[STORAGE_KEY]
    report,                 \* what the last handleExportPDF produced
    steps,                  \* user events so far
    lastOp,                 \* the last handler run and how it ended
    lastFile,               \* the content of the last handleFileUpload
    lastReq,                \* the request of the last handleDrop
    lastConfirm,            \* "notAsked", "proceed" or "abort" of the last export
    prevModel,              \* the model before the last handler ran
    fileName,               \* useState of FileUpload: the file last chosen
    reading,                \* the files a FileReader is still reading
    baseline,               \* the table right after the last import or load
    oldRefView              \* the table seen through the reference the last
                            \* handleDrop was given, after it returned

vars == << variant, programmers, qas, projectManagers, projectLeads, projects,
           assignments, resourceProjectCounts, storage, report, steps, lastOp,
           lastFile, lastReq, lastConfirm, prevModel, fileName, reading,
           baseline, oldRefView >>

Model ==
    [ programmers |-> programmers, qas |-> qas,
      projectManagers |-> projectManagers, projectLeads |-> projectLeads,
      projects |-> projects, assignments |-> assignments ]

EmptyModel ==
    [ programmers |-> <<>>, qas |-> <<>>, projectManagers |-> <<>>,
      projectLeads |-> <<>>, projects |-> <<>>, assignments |-> <<>> ]

allResourcesOf(m) == m.programmers \o m.qas \o m.projectManagers \o m.projectLeads

memoDeps(m) ==
    << m.programmers, m.qas, m.projectManagers, m.projectLeads, m.assignments >>

RolesOfVariant == IF variant = 4 THEN RoleSet(Roles4) ELSE RoleSet(Roles3)

NoReq ==
    [ resourceId |-> <<>>, resourceType |-> "", sourceProjectId |-> <<>>,
      targetProjectId |-> Null, targetType |-> "" ]

\* The requests a drop can carry in the current state: a drag of a resource
\* item (any id, any source, any drop zone), or a drag of something else,
\* whose dataTransfer has none of the three keys.
Requests ==
    LET ids == poolIds(allResourcesOf(Model)) \cup {GhostResource}
        pids == DOMAIN assignments \cup {GhostProject}
    IN  [ resourceId : ids, resourceType : DragTypes,
          sourceProjectId : {<<>>, Unassigned} \cup pids,
          targetProjectId : {Null} \cup pids, targetType : DragTypes ]
        \cup
        [ resourceId : {<<>>}, resourceType : {""}, sourceProjectId : {<<>>},
          targetProjectId : {Null} \cup pids, targetType : DragTypes ]

\* useState<string>(''): no file chosen.  A chosen file is kept as a
\* one-element list (the model tells files apart by their content).
NoFile == <<>>

\* The role of a pool, and the pools of an App.
PoolRole ==
    [ programmers |-> "PROGRAMMER", qas |-> "QA",
      projectManagers |-> "PROJECT_MANAGER", projectLeads |-> "PROJECT_LEAD" ]

PoolsOf(v) ==
    IF v = 4 THEN {"programmers", "qas", "projectManagers", "projectLeads"}
    ELSE {"programmers", "qas", "projectManagers"}

\* The DraggableResource cards of the ResourcePool: in the 4-role App the
\* unassigned resources, in the 3-role App every resource, each with the
\* role of its pool and no source project; the search box hides some.
PoolCards ==
    LET shown(pool, term) ==
            IF variant = 4 THEN unassignedResources(Model, term)[pool]
            ELSE SelectSeq(Model[pool], LAMBDA x : filterByName(x, term))
        cards(pool) ==
            UNION { { shown(pool, term)[i] : i \in 1..Len(shown(pool, term)) } :
                    term \in SearchTerms }
    IN  UNION { { [ resourceId |-> r.id, resourceType |-> PoolRole[pool],
                    sourceProjectId |-> s ] :
                    r \in cards(pool), s \in {<<>>, Unassigned} } :
                pool \in PoolsOf(variant) }

\* The projects the ProjectBoard shows a card for: in the 4-role App those
\* the table has an entry for (if (!projectAssignments) return null), in the
\* 3-role App every project; the search box hides some.
ShownProjects ==
    { projects[i].id : i \in { j \in 1..Len(projects) :
                                   variant = 3 \/ projects[j].id \in DOMAIN assignments } }

\* The DraggableResource cards of the DropColumns: per project and role the
\* ids of the bucket that resourceMap resolves, with the role of the column
\* and the project as source.
BoardCards ==
    { [resourceId |-> c[3], resourceType |-> c[2], sourceProjectId |-> c[1]] :
        c \in { k \in ShownProjects \X RolesOfVariant \X poolIds(allResourcesOf(Model)) :
                   /\ k[1] \in DOMAIN assignments
                   /\ k[2] \in DOMAIN assignments[k[1]]
                   /\ includes(assignments[k[1]][k[2]], k[3]) } }

\* The drop zones: one per role in the pool, one per role on every project.
DropZones ==
    [ targetProjectId : {Null} \cup ShownProjects, targetType : RolesOfVariant ]

\* The requests the App can be given through its own cards and zones.
UIRequests ==
    { [ resourceId |-> c.resourceId, resourceType |-> c.resourceType,
        sourceProjectId |-> c.sourceProjectId,
        targetProjectId |-> z.targetProjectId, targetType |-> z.targetType ] :
        c \in PoolCards \cup BoardCards, z \in DropZones }

Init ==
    /\ variant \in {3, 4}
    /\ programmers = <<>>
    /\ qas = <<>>
    /\ projectManagers = <<>>
    /\ projectLeads = <<>>
    /\ projects = <<>>
    /\ assignments = <<>>
    /\ resourceProjectCounts = computeCounts(<<>>, <<>>)
    /\ storage = NoBlob
    /\ report = NoReport
    /\ steps = 0
    /\ lastOp = "init"
    /\ lastFile = <<>>
    /\ lastReq = NoReq
    /\ lastConfirm = "notAsked"
    /\ prevModel = EmptyModel
    /\ fileName = NoFile
    /\ reading = {}
    /\ baseline = <<>>
    /\ oldRefView = <<>>

\* The setState calls of a handler, and the render that follows them.
SetModel(m) ==
    /\ programmers' = m.programmers
    /\ qas' = m.qas
    /\ projectManagers' = m.projectManagers
    /\ projectLeads' = m.projectLeads
    /\ projects' = m.projects
    /\ assignments' = m.assignments
    /\ resourceProjectCounts' =
           IF variant = 4
           THEN useMemoCounts(memoDeps(Model), memoDeps(m), resourceProjectCounts)
           ELSE resourceProjectCounts

\* Bookkeeping of the event just handled.
Record(op, file, req, confirm, old) ==
    /\ steps' = steps + 1
    /\ lastOp' = op
    /\ lastFile' = file
    /\ lastReq' = req
    /\ lastConfirm' = confirm
    /\ prevModel' = Model
    /\ baseline' = IF op \in {"import", "load"} THEN assignments' ELSE baseline
    /\ oldRefView' = old

\* handleFileUpload of either App on every file of the model (a table of
\* the two functions above, evaluated once).
importResult ==
    [v \in {3, 4} |->
        [content \in Files |->
            IF v = 4 THEN handleFileUpload4(content) ELSE handleFileUpload3(content)]]

\* onFileUpload(content): handleFileUpload of the App on the text read
onFileUpload(content) ==
    LET r == importResult[variant][content]
    IN  /\ steps < MaxSteps
        /\ SetModel(afterImport(Model, r))
        /\ Record(IF r.ok THEN "import" ELSE "importFailed",
                  content, NoReq, "notAsked", assignments)
        /\ UNCHANGED << variant, storage, report >>

\* A file among files chosen and read while the user does nothing else:
\* handleFileChange and the onload of its reader in one step, the file name
\* shown left out.
HandleFileUpload(files) ==
    \E content \in files :
        /\ onFileUpload(content)
        /\ UNCHANGED << fileName, reading >>

\* onChange of the file input: handleFileChange.  With a file, its name is
\* shown and a new FileReader starts reading it; without one (the dialog was
\* cancelled) the name is cleared.  Nothing else happens in this task.
HandleFileChange(files) ==
    \E chosen \in {NoFile} \cup {<<f>> : f \in files} :
        /\ fileName' = chosen
        /\ reading' = IF chosen = NoFile THEN reading
                      ELSE reading \cup {chosen[1]}
        /\ UNCHANGED << variant, programmers, qas, projectManagers, projectLeads,
                        projects, assignments, resourceProjectCounts, storage,
                        report, steps, lastOp, lastFile, lastReq, lastConfirm,
                        prevModel, baseline, oldRefView >>

\* reader.onload of one of the readers at work, in a task of its own: the
\* reads finish in any order.
ReaderOnload ==
    \E content \in reading :
        /\ onFileUpload(content)
        /\ reading' = reading \ {content}
        /\ UNCHANGED fileName

\* onDrop of a drop zone (pools and boards are rendered only while hasData),
\* for a request among requests
HandleDrop(requests) ==
    \E q \in requests :
        LET r == handleDrop(variant, assignments, q)
        IN  /\ steps < MaxSteps
            /\ hasData(Model) = TRUE
            /\ SetModel(afterDrop(Model, q, r.new))
            /\ Record("drop", <<>>, q, "notAsked", r.old)
            /\ UNCHANGED << variant, storage, report, fileName, reading >>

\* handleSave, the onClick of "Save State" (the button is disabled while
\* !hasData; the handler tests hasData itself and is modelled on every model)
HandleSave ==
    /\ steps < MaxSteps
    /\ storage' = IF hasData(Model) THEN jsonBlob(stateToSave(variant, Model))
                  ELSE storage
    /\ SetModel(Model)
    /\ Record(IF hasData(Model) THEN "save" ELSE "saveSkipped",
              <<>>, NoReq, "notAsked", assignments)
    /\ UNCHANGED << variant, report, fileName, reading >>

\* onClick of "Load State"
HandleLoad ==
    /\ steps < MaxSteps
    /\ SetModel(afterLoad(variant, Model, storage))
    /\ Record(IF ~storage.stored THEN "loadNone"
              ELSE IF loadSucceeds(storage) THEN "load" ELSE "loadFailed",
              <<>>, NoReq, "notAsked", assignments)
    /\ UNCHANGED << variant, storage, report, fileName, reading >>

\* onClick of "Export to PDF" (the button is disabled while !hasData)
HandleExportPDF ==
    LET counts == IF variant = 4 THEN resourceProjectCounts
                  ELSE computeCounts(allResourcesOf(Model), assignments)
        asked == needsConfirm(Model, counts)
        threw == rosterThrows(variant, Model)
    IN  \E proceed \in (IF asked THEN BOOLEAN ELSE {TRUE}) :
            /\ steps < MaxSteps
            /\ hasData(Model) = TRUE
            /\ report' = IF proceed /\ ~threw
                         THEN buildReport(variant, Model, counts) ELSE report
            /\ SetModel(Model)
            /\ Record(IF ~proceed THEN "exportAborted"
                      ELSE IF threw THEN "exportThrew" ELSE "export", <<>>, NoReq,
                      IF ~asked THEN "notAsked" ELSE IF proceed THEN "proceed" ELSE "abort",
                      assignments)
            /\ UNCHANGED << variant, storage, fileName, reading >>

Next ==
    \/ HandleFileUpload(BoardFiles)
    \/ HandleDrop(Requests)
    \/ HandleSave
    \/ HandleLoad
    \/ HandleExportPDF

\* The whole App: imports of the board files, drops, saves, loads, exports.
Spec == Init /\ [][Next]_vars

\* The Import Resolver alone, on every file of the model.
NextImport == HandleFileUpload(Files)

SpecImport == Init /\ [][NextImport]_vars

\* The App driven through its own cards and zones only.
NextUI ==
    \/ HandleFileUpload(BoardFiles)
    \/ HandleDrop(UIRequests)
    \/ HandleSave
    \/ HandleLoad

SpecUI == Init /\ [][NextUI]_vars

\* The files of the runs in which reads overlap.
AsyncFiles == {f \in BoardFiles : Len(f) >= 2}

\* File choices and reads as the separate tasks they are, among the drops,
\* saves and loads of the App.
NextAsync ==
    \/ HandleFileChange(AsyncFiles)
    \/ ReaderOnload
    \/ HandleDrop(UIRequests)
    \/ HandleSave
    \/ HandleLoad

SpecAsync == Init /\ [][NextAsync]_vars

\* ================================================================ claims
\* Helpers of the statements below (not part of the program).
was == prevModel.assignments

IsDrop == lastOp = "drop"

\* The last drop got past both early returns.
DropApplied == IsDrop /\ ~noDragData(lastReq) /\ lastReq.resourceType = lastReq.targetType

IsProjectId(pid) == pid \in DOMAIN was

\* id was in bucket (pid, role) before the last handler ran and is not now.
Removed(pid, role, id) ==
    /\ includes(was[pid][role], id)
    /\ ~(pid \in DOMAIN assignments
         /\ role \in DOMAIN assignments[pid]
         /\ includes(assignments[pid][role], id))

SomeRemoval ==
    \E pid \in DOMAIN was : \E role \in DOMAIN was[pid] :
        \E i \in 1..Len(was[pid][role]) : Removed(pid, role, was[pid][role][i])

\* ---------------------------------------------------------------- C1
\* C1: role isolation.  A drop whose dragged role differs from the role of
\* its drop zone leaves the whole Assignment Table as it was, whatever the
\* resource, the source project and the target project are.
C1_RoleIsolation ==
    (IsDrop /\ lastReq.resourceType # lastReq.targetType) => assignments = was

\* A resource card of a project bucket dropped on a zone of another role of
\* another project.
C1_Witness ==
    /\ IsDrop
    /\ lastReq.resourceType \in DragTypes
    /\ lastReq.resourceType # lastReq.targetType
    /\ IsProjectId(lastReq.sourceProjectId)
    /\ IsProjectId(lastReq.targetProjectId)
    /\ lastReq.sourceProjectId # lastReq.targetProjectId
    /\ includes(was[lastReq.sourceProjectId][lastReq.resourceType], lastReq.resourceId)

\* ---------------------------------------------------------------- C2
\* C2 as claimed: a drop on a project (targetProjectId non-null) removes no
\* id from any bucket; only drops with a null target and a non-null source
\* remove an assignment.
C2_PureAddAsClaimed ==
    (IsDrop /\ SomeRemoval) =>
        (~Truthy(lastReq.targetProjectId) /\ Truthy(lastReq.sourceProjectId))

\* C2, amended: a drop removes at most the dragged id, and only from the
\* (sourceProjectId, role) bucket of a source that is a project (non-empty,
\* not 'unassigned').  In the 3-role App a drop on a project is a pure add
\* (it removes nothing); in the 4-role App a drop on a project also removes
\* the id from the source bucket unless source and target are one project.
C2_RemovalOnlyFromSource ==
    IsDrop =>
        /\ \A pid \in DOMAIN was : \A role \in DOMAIN was[pid] :
             \A i \in 1..Len(was[pid][role]) :
                Removed(pid, role, was[pid][role][i]) =>
                    /\ was[pid][role][i] = lastReq.resourceId
                    /\ pid = lastReq.sourceProjectId
                    /\ role = lastReq.targetType
                    /\ lastReq.resourceType = lastReq.targetType
                    /\ lastReq.sourceProjectId # Unassigned
                    /\ lastReq.sourceProjectId # lastReq.targetProjectId
                    /\ (variant = 3 => ~Truthy(lastReq.targetProjectId))
        /\ (variant = 4 /\ DropApplied /\ IsProjectId(lastReq.sourceProjectId)
            /\ lastReq.sourceProjectId # lastReq.targetProjectId)
               => ~includes(assignments[lastReq.sourceProjectId][lastReq.targetType],
                            lastReq.resourceId)

\* The 4-role App moved a resource from one project to another.
C2_Witness ==
    /\ variant = 4
    /\ DropApplied
    /\ IsProjectId(lastReq.sourceProjectId)
    /\ IsProjectId(lastReq.targetProjectId)
    /\ lastReq.sourceProjectId # lastReq.targetProjectId
    /\ Removed(lastReq.sourceProjectId, lastReq.targetType, lastReq.resourceId)
    /\ Len(was[lastReq.sourceProjectId][lastReq.targetType]) > 1

\* Every bucket of the table t holds each id at most once.
NoDuplicates(t) ==
    \A pid \in DOMAIN t : \A role \in DOMAIN t[pid] :
        \A i, j \in 1..Len(t[pid][role]) :
            t[pid][role][i] = t[pid][role][j] => i = j

\* ---------------------------------------------------------------- C3
\* C3: idempotence of moves.  Applying the request of the last drop once
\* more to the table that drop produced yields that very table, bucket by
\* bucket and in the same order, and neither table holds a duplicate entry.
C3_Idempotent ==
    IsDrop =>
        /\ handleDrop(variant, assignments, lastReq).new = assignments
        /\ NoDuplicates(assignments)
        /\ NoDuplicates(handleDrop(variant, assignments, lastReq).new)

\* A drop that changed the table: a card of one project dropped on another
\* project, or a card dropped on the project it came from.
C3_Witness ==
    /\ DropApplied
    /\ assignments # was
    /\ IsProjectId(lastReq.sourceProjectId)
    /\ IsProjectId(lastReq.targetProjectId)
    /\ includes(was[lastReq.sourceProjectId][lastReq.targetType], lastReq.resourceId)

\* ---------------------------------------------------------------- C4
\* C4: drop back onto the unassigned pool.  For a drop with a null target,
\* an existing source project and matching roles, the (source, role) bucket
\* afterwards is the bucket before without resourceId, the other ids in
\* their order, and every other bucket of the table is as it was.
C4_DropOnPool ==
    (DropApplied /\ ~Truthy(lastReq.targetProjectId)
        /\ IsProjectId(lastReq.sourceProjectId)) =>
        /\ DOMAIN assignments = DOMAIN was
        /\ \A pid \in DOMAIN was :
             /\ DOMAIN assignments[pid] = DOMAIN was[pid]
             /\ \A role \in DOMAIN was[pid] :
                  assignments[pid][role] =
                      IF pid = lastReq.sourceProjectId /\ role = lastReq.targetType
                      THEN SelectSeq(was[pid][role], LAMBDA id : id # lastReq.resourceId)
                      ELSE was[pid][role]

\* A card taken off a bucket that held it together with another id.
C4_Witness ==
    /\ DropApplied
    /\ ~Truthy(lastReq.targetProjectId)
    /\ IsProjectId(lastReq.sourceProjectId)
    /\ includes(was[lastReq.sourceProjectId][lastReq.targetType], lastReq.resourceId)
    /\ Len(was[lastReq.sourceProjectId][lastReq.targetType]) > 1
    /\ Len(assignments[lastReq.sourceProjectId][lastReq.targetType]) =
           Len(was[lastReq.sourceProjectId][lastReq.targetType]) - 1

\* ---------------------------------------------------------------- C5
\* C5: no-duplicate invariant.  In every state reached from the empty model
\* by imports, drops, saves and loads of saved blobs, every (project, role)
\* bucket holds each resource id at most once.
C5_NoDuplicates == NoDuplicates(assignments)

\* A card dropped on a bucket of another project that already holds its id.
C5_Witness ==
    /\ DropApplied
    /\ IsProjectId(lastReq.targetProjectId)
    /\ lastReq.sourceProjectId # lastReq.targetProjectId
    /\ includes(was[lastReq.targetProjectId][lastReq.targetType], lastReq.resourceId)
    /\ Len(assignments[lastReq.targetProjectId][lastReq.targetType]) > 1

\* The ids of the Resources of the pools of the current model.
CurrentPoolIds == poolIds(allResourcesOf(Model))

\* The number of (project, role) buckets of the current table that hold id.
BucketsHolding(id) ==
    Cardinality({k \in bucketKeys(assignments) : includes(assignments[k[1]][k[2]], id)})

\* ---------------------------------------------------------------- C6
\* C6 as claimed: referential integrity.  In every reachable state every
\* resource id found in a bucket is the id of a Resource of one of the pools
\* of the current model; a drop never inserts an id that names no Resource.
C6_ReferentialIntegrity ==
    \A pid \in DOMAIN assignments : \A role \in DOMAIN assignments[pid] :
        \A i \in 1..Len(assignments[pid][role]) :
            assignments[pid][role][i] \in CurrentPoolIds

\* ---------------------------------------------------------------- C7
\* C7: a move returns a new table and never mutates the previous one.  The
\* table read through the reference held before the drop is, after the
\* updater has run, equal bucket by bucket to the table before the drop.
C7_PreviousTableUntouched ==
    IsDrop => oldRefView = was

\* A drop whose updater both filtered the source bucket and pushed on the
\* target bucket, or did one of the two, and so returned a different table.
C7_Witness ==
    /\ DropApplied
    /\ assignments # was
    /\ oldRefView = was
    /\ \/ /\ IsProjectId(lastReq.targetProjectId)
          /\ Len(assignments[lastReq.targetProjectId][lastReq.targetType]) >
                 Len(was[lastReq.targetProjectId][lastReq.targetType])
       \/ /\ IsProjectId(lastReq.sourceProjectId)
          /\ Removed(lastReq.sourceProjectId, lastReq.targetType, lastReq.resourceId)

\* ---------------------------------------------------------------- C8
\* C8: count correctness.  For every Resource r of the pools, the derived
\* assignment count of r is the number of (project, role) buckets of the
\* current table that hold r.id: the memoised counts of the 4-role App in
\* every state (after every drop, import and load), and the counts of a
\* report at the moment it is produced, in both Apps.
C8_CountsCorrect ==
    \A id \in CurrentPoolIds :
        /\ variant = 4 => countOf(resourceProjectCounts, id) = BucketsHolding(id)
        /\ (lastOp = "export" /\ report.produced)
               => countOf(report.counts, id) = BucketsHolding(id)

\* The 4-role App after an import or a load that replaced a model whose
\* counts were different, or after a drop that changed a count.
C8_Witness ==
    /\ variant = 4
    /\ lastOp \in {"import", "load", "drop"}
    /\ \E id \in CurrentPoolIds :
          /\ BucketsHolding(id) > 1
          /\ countOf(resourceProjectCounts, id) = BucketsHolding(id)
          /\ countOf(computeCounts(allResourcesOf(prevModel), prevModel.assignments), id)
                 # BucketsHolding(id)

\* No two records of the list carry the same id.
UniqueIds(list) ==
    \A i, j \in 1..Len(list) : list[i].id = list[j].id => i = j

\* ---------------------------------------------------------------- C9
\* C9 as claimed: identity derivation on import.  After a successful import
\* no pool holds two Resources with the same id and the project list holds
\* no two Projects with the same id, whatever the case and the inner
\* whitespace of the names in the rows.
C9_OneRecordPerId ==
    lastOp = "import" =>
        /\ UniqueIds(programmers)
        /\ UniqueIds(qas)
        /\ UniqueIds(projectManagers)
        /\ UniqueIds(projectLeads)
        /\ UniqueIds(projects)

\* --------------------------------------------------------------- C10
\* The rows of the imported file as the statement reads them: the lines
\* after the header; the column of a header name is the first cell of the
\* header that is that name once trimmed and lower-cased (0: no such column).
FileRows == Tail(lastFile)

ColumnOf(name) ==
    LET header == Head(lastFile)
        hits == {c \in 1..Len(header) : trim(toLowerCase(header[c])) = name}
    IN  IF hits = {} THEN 0 ELSE CHOOSE c \in hits : \A d \in hits : c <= d

CellOf(row, column) ==
    IF column >= 1 /\ column <= Len(row) THEN trim(row[column]) ELSE <<>>

\* The id of the project a row names, Null when it names none.
ProjectOfRow(row) ==
    IF CellOf(row, ColumnOf(<<"projects">>)) = <<>> THEN Null
    ELSE generateId(CellOf(row, ColumnOf(<<"projects">>)))

ProjectsSeen == {ProjectOfRow(FileRows[i]) : i \in 1..Len(FileRows)} \ {Null}

\* The ids of the persons the rows name in column name together with project
\* pid, each once, in the order of their first rows.
NamedWith(pid, name) ==
    LET idAt == [i \in 1..Len(FileRows) |->
                    IF ProjectOfRow(FileRows[i]) = pid
                       /\ CellOf(FileRows[i], ColumnOf(name)) # <<>>
                    THEN generateId(CellOf(FileRows[i], ColumnOf(name)))
                    ELSE Null]
        firsts == {i \in 1..Len(FileRows) :
                      idAt[i] # Null /\ \A j \in 1..(i - 1) : idAt[j] # idAt[i]}
    IN  [k \in 1..Cardinality(firsts) |->
            idAt[CHOOSE i \in firsts : Cardinality({j \in firsts : j < i}) = k - 1]]

\* The column whose persons are wired to the buckets of a role.
RoleColumn(role) ==
    CASE role = "PROGRAMMER"      -> <<"programmers">>
      [] role = "QA"              -> <<"qa">>
      [] role = "PROJECT_MANAGER" -> <<"project_manager">>
      [] role = "PROJECT_LEAD"    -> <<"project_lead">>

RolesOfApp == IF variant = 4 THEN RoleSet(Roles4) ELSE RoleSet(Roles3)

AllBucketsExist ==
    /\ DOMAIN assignments = ProjectsSeen
    /\ \A pid \in DOMAIN assignments : DOMAIN assignments[pid] = RolesOfApp

ModelUnchanged == Model = prevModel

\* --------------------------------------------------------------- C11
\* C11: a failed import leaves the model exactly as it was.  Whenever
\* handleFileUpload throws (no header line, or a required column missing in
\* the 3-role App), the pools, the project list and the Assignment Table
\* equal their values before the import.
C11_FailedImportKeepsModel ==
    lastOp = "importFailed" => ModelUnchanged

\* A file with data rows whose header lacks a required column, rejected
\* while a model with projects and resources was loaded.
C11_Witness ==
    /\ lastOp = "importFailed"
    /\ Len(lastFile) > 1
    /\ Len(prevModel.programmers) > 0
    /\ Len(prevModel.projects) > 0
    /\ Model = prevModel

\* --------------------------------------------------------------- C12
\* The content has no header line: it is empty or consists of blanks only.
NoHeaderLine(file) ==
    \A i \in 1..Len(file) :
        /\ Len(file[i]) = 1
        /\ \A k \in 1..Len(file[i][1]) : file[i][1][k] \in WhiteSpace

\* The names the strict (3-role) schema requires in the header.
RequiredNames == {<<"projects">>, <<"programmers">>, <<"qa">>, <<"pm">>}

\* C12: an import fails exactly when the input has no header line (empty or
\* whitespace-only content) or, in the 3-role App, when one of the columns
\* projects, programmers, qa, pm is absent from the header; every other
\* input, a header without data rows included, is imported.
C12_ParseErrorExactly ==
    lastOp \in {"import", "importFailed"} =>
        (lastOp = "importFailed" <=>
            \/ NoHeaderLine(lastFile)
            \/ /\ variant = 3
               /\ \E name \in RequiredNames : ColumnOf(name) = 0)

\* The 3-role App rejected a file with data rows for a missing column, its
\* header holding two of the four required names.
C12_Witness ==
    /\ lastOp = "importFailed"
    /\ variant = 3
    /\ ~NoHeaderLine(lastFile)
    /\ Len(lastFile) = 3
    /\ ColumnOf(<<"projects">>) > 0
    /\ ColumnOf(<<"programmers">>) > 0
    /\ ColumnOf(<<"qa">>) = 0

\* ------------------------------------------------ a store with a history
\* localStorage outlives the page: the App may start with whatever an earlier
\* session, of either App, or anything else left under STORAGE_KEY.
ResourceA == [id |-> <<"a">>, name |-> NameA]
ResourceBb == [id |-> <<"b", "-", "b">>, name |-> NameBb]

\* Saved by a session of the 3-role App: two managers on one project, and a
\* programmer bucket that holds an id no pool knows.
Session3Blob ==
    jsonBlob([ programmers |-> <<ResourceA>>,
               qas |-> <<ResourceBb>>,
               projectManagers |-> <<ResourceA, ResourceBb>>,
               projects |-> <<[id |-> <<"p">>, name |-> ProjectP,
                               projectLeadId |-> <<"a">>]>>,
               assignments |->
                   (<<"p">> :> [ PROGRAMMER |-> <<GhostResource, <<"a">>>>,
                                 QA |-> <<>>,
                                 PROJECT_MANAGER |-> <<<<"a">>, <<"b", "-", "b">>>> ]) ])

\* Saved by a session of the 4-role App.
Session4Blob ==
    jsonBlob([ programmers |-> <<ResourceA>>,
               qas |-> <<ResourceBb>>,
               projectManagers |-> <<ResourceBb>>,
               projectLeads |-> <<ResourceA>>,
               projects |-> <<[id |-> <<"p">>, name |-> ProjectP]>>,
               assignments |->
                   (<<"p">> :> [ PROGRAMMER |-> <<<<"a">>>>,
                                 QA |-> <<GhostResource>>,
                                 PROJECT_MANAGER |-> <<<<"b", "-", "b">>, GhostResource>>,
                                 PROJECT_LEAD |-> <<<<"a">>>> ]) ])

\* An object with two of the six fields, a null projects field and nothing
\* else; and an object with none of the six.
PartialBlob ==
    [ stored |-> TRUE, parses |-> TRUE,
      value |-> [programmers |-> <<ResourceA>>, projectLeads |-> <<ResourceBb>>],
      nullFields |-> {"projects"} ]

UnknownOnlyBlob == jsonBlob([version |-> <<"1">>])

StoredBlobs ==
    { NoBlob, CorruptBlob, NullBlob, UnknownOnlyBlob, PartialBlob,
      Session3Blob, Session4Blob }

InitStored ==
    /\ variant \in {3, 4}
    /\ programmers = <<>>
    /\ qas = <<>>
    /\ projectManagers = <<>>
    /\ projectLeads = <<>>
    /\ projects = <<>>
    /\ assignments = <<>>
    /\ resourceProjectCounts = computeCounts(<<>>, <<>>)
    /\ storage \in StoredBlobs
    /\ report = NoReport
    /\ steps = 0
    /\ lastOp = "init"
    /\ lastFile = <<>>
    /\ lastReq = NoReq
    /\ lastConfirm = "notAsked"
    /\ prevModel = EmptyModel
    /\ fileName = NoFile
    /\ reading = {}
    /\ baseline = <<>>
    /\ oldRefView = <<>>

NextStored ==
    \/ HandleFileUpload(BoardFiles)
    \/ HandleSave
    \/ HandleLoad
    \/ HandleExportPDF

\* The App on a store with a history: imports, saves, loads and exports.
SpecStored == InitStored /\ [][NextStored]_vars

\* --------------------------------------------------------------- C13
\* C13: a failed snapshot load leaves the model exactly as it was.  When no
\* blob is stored or the stored blob cannot be read, handleLoad changes none
\* of the pools, the project list or the Assignment Table; and the load
\* fails only for a stored text that does not parse, or parses to no object
\* at all (null).
C13_FailedLoadKeepsModel ==
    /\ lastOp \in {"loadFailed", "loadNone"} => ModelUnchanged
    /\ lastOp = "loadNone" => ~storage.stored
    /\ lastOp = "loadFailed" =>
           /\ storage.stored
           /\ ~storage.parses \/ "value" \notin DOMAIN storage

\* An unparseable blob met by a load while an imported model with projects
\* was on the board.
C13_Witness ==
    /\ lastOp = "loadFailed"
    /\ storage = CorruptBlob
    /\ Len(prevModel.projects) > 0
    /\ Len(prevModel.programmers) > 0
    /\ Model = prevModel

\* --------------------------------------------------------------- C14
\* The step is a click on "Load State" that follows a click on "Save State".
LoadAfterSave ==
    /\ lastOp \in {"save", "saveSkipped"}
    /\ lastOp' \in {"load", "loadNone", "loadFailed"}

SnapshotFields ==
    {"programmers", "qas", "projectManagers", "projectLeads", "projects", "assignments"}

FieldsOfApp == IF variant = 4 THEN SnapshotFields ELSE SnapshotFields \ {"projectLeads"}

\* The last handler was handleLoad and the store held a text that parses to
\* an object.
LoadedObject ==
    /\ lastOp \in {"load", "loadFailed", "loadNone"}
    /\ storage.stored
    /\ storage.parses
    /\ "value" \in DOMAIN storage

ModelOfFile(v, file) ==
    LET r == IF v = 4 THEN handleFileUpload4(file) ELSE handleFileUpload3(file)
    IN  [ programmers |-> r.programmers, qas |-> r.qas,
          projectManagers |-> r.projectManagers, projectLeads |-> r.projectLeads,
          projects |-> r.projects, assignments |-> r.assignments ]

\* The model a blob alone determines: what handleLoad sets in a fresh App.
ModelOfBlob(v, blob) == afterLoad(v, EmptyModel, blob)

\* C16: wholesale replacement.  After a successful import the whole model is
\* a function of the imported file alone, after a successful load a function
\* of the loaded blob alone: whatever the prior model was, the result is the
\* one a fresh App would reach, so nothing of the prior model is merged in.
C16_WholesaleReplacement ==
    /\ lastOp = "import" => Model = ModelOfFile(variant, lastFile)
    /\ lastOp = "load" => Model = ModelOfBlob(variant, storage)

\* A one-project file imported over a model with two projects and a
\* different table.
C16_Witness ==
    /\ lastOp = "import"
    /\ Len(prevModel.projects) > Len(projects)
    /\ Len(projects) > 0
    /\ Len(prevModel.projectManagers) > 0
    /\ DOMAIN prevModel.assignments # DOMAIN assignments

\* --------------------------------------------------------------- C17
\* The four pools and the project list are what they were before the last
\* handler ran.
PoolsAndProjectsUnchanged ==
    /\ programmers = prevModel.programmers
    /\ qas = prevModel.qas
    /\ projectManagers = prevModel.projectManagers
    /\ projectLeads = prevModel.projectLeads
    /\ projects = prevModel.projects

\* C17: moves touch only the Assignment Table.  Every drop, accepted or
\* ignored, leaves the four pools and the project list unchanged, and so do
\* saves and report generations: between two full replacements (import or
\* load) the resources and the projects stay the same.
C17_MovesTouchOnlyTable ==
    lastOp \in {"drop", "save", "saveSkipped", "export", "exportAborted", "exportThrew"}
        => PoolsAndProjectsUnchanged

\* An accepted drop of a pooled resource that changed the table.
C17_Witness ==
    /\ DropApplied
    /\ assignments # was
    /\ lastReq.resourceId \in poolIds(programmers \o qas)
    /\ Len(projects) > 1
    /\ PoolsAndProjectsUnchanged

\* --------------------------------------------------------------- C18
\* The members of a list, as a set.
Members(list) == {list[i] : i \in 1..Len(list)}

PoolNames == {"programmers", "qas", "projectManagers", "projectLeads"}

\* The report just produced classifies by count: its unassigned rows are the
\* resources in no bucket, its over-utilized rows the resources in more than
\* three, by non-increasing count.
ReportClassifies ==
    (lastOp = "export" /\ report.produced) =>
        /\ Members(report.unassigned) =
               {r \in Members(allResourcesWithTypes(Model)) : BucketsHolding(r.id) = 0}
        /\ Members(report.overUtilized) =
               {r \in Members(allResourcesWithTypes(Model)) : BucketsHolding(r.id) > 3}
        /\ \A i, j \in 1..Len(report.overUtilized) :
               i < j => BucketsHolding(report.overUtilized[i].id)
                            >= BucketsHolding(report.overUtilized[j].id)
        /\ \A r \in Members(allResourcesWithTypes(Model)) :
               BucketsHolding(r.id) \in 1..3 =>
                   r \notin Members(report.unassigned) \cup Members(report.overUtilized)

\* C18 as claimed: report classification.  The unassigned set of the report,
\* and the one the unassigned pool of the 4-role App shows, is exactly the
\* resources with assignment count 0; the over-utilized list is exactly the
\* resources with count above 3, by non-increasing count; a resource with
\* count 1, 2 or 3 is in neither.
C18_ClassificationAsClaimed ==
    /\ ReportClassifies
    /\ variant = 4 =>
           \A term \in SearchTerms : \A pool \in PoolNames :
               Members(unassignedResources(Model, term)[pool]) =
                   {r \in Members(Model[pool]) : BucketsHolding(r.id) = 0}

\* C18, amended: as claimed for the report.  The unassigned pool of the
\* 4-role App shows, of the resources with assignment count 0, those whose
\* name contains the text of its search box, letter case ignored: all of
\* them while the box is empty, fewer otherwise.
C18_Classification ==
    /\ ReportClassifies
    /\ variant = 4 =>
           \A term \in SearchTerms : \A pool \in PoolNames :
               Members(unassignedResources(Model, term)[pool]) =
                   {r \in Members(Model[pool]) :
                       /\ BucketsHolding(r.id) = 0
                       /\ \/ term = <<>>
                          \/ \E k \in 1..Len(r.name) :
                                 LowerChar(r.name[k]) = LowerChar(term[1])}

\* A report of the 4-role App with an over-utilized resource and an
\* unassigned one, the latter hidden in the pool by the search text "A".
C18_Witness ==
    /\ lastOp = "export"
    /\ variant = 4
    /\ report.produced
    /\ Len(report.overUtilized) > 0
    /\ Len(report.unassigned) > 0
    /\ \E pool \in PoolNames :
          /\ unassignedResources(Model, <<>>)[pool] # <<>>
          /\ unassignedResources(Model, <<"A">>)[pool] = <<>>

\* --------------------------------------------------------------- C19
ExportOps == {"export", "exportAborted", "exportThrew"}

\* Some resource of a pool is in no bucket.
HasUnassigned ==
    \E r \in Members(allResourcesWithTypes(Model)) : BucketsHolding(r.id) = 0

\* After a report request: with unassigned resources the user was asked, and
\* a report followed only on "proceed"; without, nobody was asked and the
\* request was not aborted.  An aborted request left the model as it was.
C19_AfterRequest ==
    lastOp \in ExportOps =>
        /\ HasUnassigned => lastConfirm \in {"proceed", "abort"}
        /\ (HasUnassigned /\ lastOp = "export") => lastConfirm = "proceed"
        /\ lastOp = "exportAborted" =>
               HasUnassigned /\ lastConfirm = "abort" /\ ModelUnchanged
        /\ ~HasUnassigned => lastConfirm = "notAsked" /\ lastOp # "exportAborted"
        /\ lastOp = "export" => report.produced

\* An aborted request produces no report; a request that went through
\* produces the report of the model it was made on.
C19_RequestStep ==
    /\ lastOp' = "exportAborted" => report' = report /\ Model' = Model
    /\ lastOp' = "export" => report'.produced /\ Model' = Model

\* C19: confirmation gate.  A report requested while some resource is
\* unassigned is produced only after the user is asked and confirms; when the
\* user aborts, no report is produced and the model is unchanged; when no
\* resource is unassigned the report is produced without asking.
C19_ConfirmationGate == [][C19_AfterRequest' /\ C19_RequestStep]_vars

\* A report produced over unassigned resources, after the user confirmed.
C19_Witness ==
    /\ lastOp = "export"
    /\ HasUnassigned
    /\ lastConfirm = "proceed"
    /\ report.produced
    /\ Len(report.unassigned) > 0

\* --------------------------------------------------------------- C20
\* The names a roster prints are those of the ids of the bucket that some
\* resource of the pools carries, in bucket order; "N/A" or nothing when the
\* bucket has no such id.
RosterMatches(names, bucket) ==
    LET pool == Members(allResourcesWithTypes(Model))
        kept == SelectSeq(bucket, LAMBDA id : \E r \in pool : r.id = id)
    IN  IF kept = <<>> THEN names \in {<<>>, <<NotAvailable>>}
        ELSE /\ Len(names) = Len(kept)
             /\ \A i \in 1..Len(kept) :
                    \E r \in pool : r.id = kept[i] /\ r.name = names[i]

\* The roster field the report prints for a role.
RosterField(role) ==
    CASE role = "PROGRAMMER" -> "programmers"
      [] role = "QA" -> "qas"
      [] role = "PROJECT_MANAGER" -> "managers"
      [] role = "PROJECT_LEAD" -> "leads"

\* The projects the table has an entry for, in project-list order.
ProjectsOnBoard == SelectSeq(projects, LAMBDA p : p.id \in DOMAIN assignments)

RostersFollowBuckets(roles) ==
    /\ Len(report.rosters) = Len(ProjectsOnBoard)
    /\ \A i \in 1..Len(ProjectsOnBoard) :
           /\ report.rosters[i].project = ProjectsOnBoard[i].name
           /\ \A role \in roles \cap DOMAIN assignments[ProjectsOnBoard[i].id] :
                  RosterMatches(report.rosters[i][RosterField(role)],
                                assignments[ProjectsOnBoard[i].id][role])

\* C20 as claimed: report rosters tolerate dangling ids.  In a report just
\* produced, for every project and role, the roster is the list of the names
\* of the ids of the bucket that name an existing resource, in bucket order,
\* dangling ids left out, and "N/A" (or empty) when no id of the bucket
\* resolves; producing the report changed nothing in the model.
C20_RostersTolerateDangling ==
    (lastOp = "export" /\ report.produced) =>
        /\ ModelUnchanged
        /\ RostersFollowBuckets(RolesOfApp)

\* --------------------------------------------------------------- C21
ImportOps == {"import", "importFailed"}

\* While a file chosen is still being read, a step is a file event (a file
\* chosen, a read done) or leaves the model and the store as they are.
NothingBetween ==
    reading # {} =>
        \/ reading' # reading
        \/ fileName' # fileName
        \/ (Model' = Model /\ storage' = storage)

\* The read that ends the last import of a series is that of the file
\* chosen last.
LastChosenWins ==
    (reading # {} /\ reading' = {} /\ fileName' # NoFile) =>
        /\ lastOp' \in ImportOps
        /\ lastFile' = fileName'[1]

\* C21: run-to-completion of import.  No move, save or load takes effect
\* between the choice of a file and the replacement of the model by its
\* content, and after choosing file A and then file B the model is the
\* import of B, in whatever order the two reads complete.
C21_RunToCompletion == [][NothingBetween /\ LastChosenWins]_vars

\* --------------------------------------------------------------- C22
\* The ids of bucket that are also in other, in the order of bucket.
Kept(bucket, other) == SelectSeq(bucket, LAMBDA id : includes(other, id))

\* From old to new the ids that stay keep their order and the ids that come
\* stand behind all that stay.
OrderKept(old, new) ==
    /\ Kept(old, new) = Kept(new, old)
    /\ \A i, j \in 1..Len(new) :
           (i < j /\ includes(old, new[j])) => includes(old, new[i])

\* C22: bucket order is insertion order.  A drop never changes the relative
\* order of the ids a bucket holds before and after it, a newly inserted id
\* stands after all ids already present, and a drop of a resource on a
\* bucket that already holds it leaves the sequence of that bucket
\* unchanged, also when source project and target project are the same.
C22_InsertionOrder ==
    IsDrop =>
        /\ \A pid \in DOMAIN was \cap DOMAIN assignments :
               \A role \in DOMAIN was[pid] \cap DOMAIN assignments[pid] :
                   OrderKept(was[pid][role], assignments[pid][role])
        /\ (/\ DropApplied
            /\ IsProjectId(lastReq.targetProjectId)
            /\ includes(was[lastReq.targetProjectId][lastReq.targetType],
                        lastReq.resourceId))
               => assignments[lastReq.targetProjectId][lastReq.targetType]
                      = was[lastReq.targetProjectId][lastReq.targetType]

\* --------------------------------------------------------------- C23
\* The columns whose persons fill a pool.
PoolColumns(pool) ==
    CASE pool = "programmers" -> {<<"programmers">>}
      [] pool = "qas" -> {<<"qa">>}
      [] pool = "projectManagers" ->
             IF variant = 4 THEN {<<"pm">>, <<"project_manager">>} ELSE {<<"pm">>}
      [] pool = "projectLeads" -> {<<"project_leads">>, <<"project_lead">>}

\* The rows of the file that name no project.
UnprojectedRows == {i \in 1..Len(FileRows) : ProjectOfRow(FileRows[i]) = Null}

\* Row i names a person in one of its person columns.
NamesPerson(i) ==
    \E pool \in PoolsOf(variant) : \E col \in PoolColumns(pool) :
        CellOf(FileRows[i], ColumnOf(col)) # <<>>

\* C23: a row whose projects value is empty adds the persons named in its
\* recognized person columns to their pools, but creates no project and adds
\* no id to any bucket: after a successful import every such person is in the
\* pool of its column, the projects are those the other rows name, and every
\* id in a bucket of a project is named by a row of that project.
C23_RowWithoutProject ==
    lastOp = "import" =>
        /\ \A i \in UnprojectedRows :
               \A pool \in PoolsOf(variant) : \A col \in PoolColumns(pool) :
                   LET cell == CellOf(FileRows[i], ColumnOf(col))
                   IN  cell # <<>> =>
                           \E k \in 1..Len(Model[pool]) :
                               /\ Model[pool][k].name = cell
                               /\ Model[pool][k].id = generateId(cell)
        /\ {projects[k].id : k \in 1..Len(projects)} = ProjectsSeen
        /\ DOMAIN assignments = ProjectsSeen
        /\ \A pid \in DOMAIN assignments : \A role \in DOMAIN assignments[pid] :
               \A k \in 1..Len(assignments[pid][role]) :
                   \E i \in 1..Len(FileRows) :
                       /\ ProjectOfRow(FileRows[i]) = pid
                       /\ CellOf(FileRows[i], ColumnOf(RoleColumn(role))) # <<>>
                       /\ generateId(CellOf(FileRows[i], ColumnOf(RoleColumn(role))))
                              = assignments[pid][role][k]

\* An imported file with a row that names a person and no project, and a
\* row that names a project: the person is in a pool and in no bucket.
C23_Witness ==
    /\ lastOp = "import"
    /\ \E i \in UnprojectedRows : NamesPerson(i)
    /\ Len(projects) > 0
    /\ \E pool \in PoolsOf(variant) : \E k \in 1..Len(Model[pool]) :
          /\ BucketsHolding(Model[pool][k].id) = 0
          /\ \E i \in UnprojectedRows : \E col \in PoolColumns(pool) :
                 CellOf(FileRows[i], ColumnOf(col)) = Model[pool][k].name

\* --------------------------------------------------------------- C24
\* The project names of the rows, each once, in the order of their first
\* rows.
ProjectNamesSeen ==
    LET nameAt == [i \in 1..Len(FileRows) |->
                      CellOf(FileRows[i], ColumnOf(<<"projects">>))]
        firsts == {i \in 1..Len(FileRows) :
                      nameAt[i] # <<>> /\ \A j \in 1..(i - 1) : nameAt[j] # nameAt[i]}
    IN  [k \in 1..Cardinality(firsts) |->
            nameAt[CHOOSE i \in firsts : Cardinality({j \in firsts : j < i}) = k - 1]]

\* C24: project registration.  When the same project name appears verbatim
\* in several rows, a successful import registers it once: the project list
\* has one entry per distinct project name, in order of first occurrence,
\* each with the id derived from its name.
C24_RegisteredOnce ==
    lastOp = "import" =>
        /\ Len(projects) = Len(ProjectNamesSeen)
        /\ \A k \in 1..Len(projects) :
               /\ projects[k].name = ProjectNamesSeen[k]
               /\ projects[k].id = generateId(ProjectNamesSeen[k])

\* --------------------------------------------------------------- C25
\* C25: a move naming a target project that is not in the model is ignored.
\* For matching roles and a targetProjectId that is non-null but no key of
\* the Assignment Table, the table after the drop equals the table before:
\* nothing is removed from the source bucket, no project entry is created.
C25_UnknownTargetIgnored ==
    (/\ DropApplied
     /\ Truthy(lastReq.targetProjectId)
     /\ ~IsProjectId(lastReq.targetProjectId))
        => assignments = was

\* --------------------------------------------------------------- C26
ProjectIds == {projects[k].id : k \in 1..Len(projects)}

\* C26: table shape.  In every state reached by imports, moves, saves and
\* loads of blobs the same App saved, the keys of the Assignment Table are
\* the ids of the project list and every entry has exactly one bucket per
\* role of the App; no move adds or deletes a project key or a role bucket.
C26_TableShape ==
    /\ DOMAIN assignments = ProjectIds
    /\ \A pid \in DOMAIN assignments : DOMAIN assignments[pid] = RolesOfApp
    /\ IsDrop =>
           /\ DOMAIN assignments = DOMAIN was
           /\ \A pid \in DOMAIN was : DOMAIN assignments[pid] = DOMAIN was[pid]

\* A drop that changed a table of two projects, one of them the source.
C26_Witness ==
    /\ DropApplied
    /\ assignments # was
    /\ Cardinality(ProjectIds) = 2
    /\ IsProjectId(lastReq.sourceProjectId)

\* --------------------------------------------------------------- C27
\* The number of buckets of table that hold id.
CountIn(table, id) ==
    Cardinality({k \in bucketKeys(table) : includes(table[k[1]][k[2]], id)})

MaxOf(a, b) == IF a >= b THEN a ELSE b

KnownIds == poolIds(allResourcesOf(Model)) \cup
            {allBucketIds(assignments)[k] : k \in 1..Len(allBucketIds(assignments))}

\* C27: in the 4-role App, driven through the cards and zones it shows (a
\* pool card only for a resource in no bucket, with no source; a board card
\* with its project as source), no sequence of moves raises the assignment
\* count of a resource above the larger of 1 and its count right after the
\* last import or load (each move leaves the count at most at the larger of
\* 1 and what it was); a move never makes a resource over-utilized.
C27_MovesKeepCounts ==
    variant = 4 =>
        /\ \A id \in KnownIds :
               CountIn(assignments, id) <= MaxOf(1, CountIn(baseline, id))
        /\ IsDrop =>
               \A id \in KnownIds :
                   /\ CountIn(assignments, id) <= MaxOf(1, CountIn(was, id))
                   /\ CountIn(assignments, id) > 3 => CountIn(was, id) > 3

\* The 4-role App moved a resource of several projects from one project to
\* another.
C27_Witness ==
    /\ variant = 4
    /\ DropApplied
    /\ assignments # was
    /\ IsProjectId(lastReq.sourceProjectId)
    /\ IsProjectId(lastReq.targetProjectId)
    /\ lastReq.sourceProjectId # lastReq.targetProjectId
    /\ CountIn(baseline, lastReq.resourceId) >= 2
    /\ includes(assignments[lastReq.targetProjectId][lastReq.targetType],
                lastReq.resourceId)
    /\ ~includes(was[lastReq.targetProjectId][lastReq.targetType],
                 lastReq.resourceId)

\* --------------------------------------------------------------- C28
\* The pool of a role.
PoolOfRole(role) ==
    CASE role = "PROGRAMMER" -> programmers
      [] role = "QA" -> qas
      [] role = "PROJECT_MANAGER" -> projectManagers
      [] role = "PROJECT_LEAD" -> projectLeads

\* C28: pool-role consistency.  While every card carries the role of the
\* pool or bucket it is dragged from, in every state reached by imports and
\* moves every id in bucket (p, role) is the id of a Resource of the pool of
\* that same role.
C28_PoolRoleConsistency ==
    \A pid \in DOMAIN assignments : \A role \in DOMAIN assignments[pid] :
        \A k \in 1..Len(assignments[pid][role]) :
            assignments[pid][role][k] \in poolIds(PoolOfRole(role))

\* A pool card dropped on a project: its id is now in a bucket of its role,
\* and some pool of another role does not know that id.
C28_Witness ==
    /\ DropApplied
    /\ assignments # was
    /\ ~IsProjectId(lastReq.sourceProjectId)
    /\ IsProjectId(lastReq.targetProjectId)
    /\ includes(assignments[lastReq.targetProjectId][lastReq.targetType],
                lastReq.resourceId)
    /\ \E role \in RolesOfApp :
           /\ role # lastReq.targetType
           /\ PoolOfRole(role) # <<>>
           /\ lastReq.resourceId \notin poolIds(PoolOfRole(role))

\* --------------------------------------------------------------- C29
\* A table cut down to the three roles both Apps have.
SharedRoles(table) ==
    [pid \in DOMAIN table |->
        [role \in DOMAIN table[pid] \cap RoleSet(Roles3) |-> table[pid][role]]]

\* The source of q is the pool, or its target is.
PoolInvolved(q) ==
    \/ ~Truthy(q.sourceProjectId)
    \/ q.sourceProjectId = Unassigned
    \/ ~Truthy(q.targetProjectId)

\* The two handleDrop give the same table for q on the current table.
SameDrop(q) ==
    SharedRoles(handleDrop(3, assignments, q).new)
        = SharedRoles(handleDrop(4, assignments, q).new)

\* C29: the handleDrop of the 3-role App (add semantics) and that of the
\* 4-role App (move semantics) compute the same Assignment Table from the
\* same table and request, over the three roles they share, whenever the
\* source is null or 'unassigned' or the target is null; their results can
\* differ only when both sourceProjectId and targetProjectId are non-null.
C29_VariantsAgree ==
    \A q \in Requests : PoolInvolved(q) => SameDrop(q)

\* A table on which the two handlers agree on a drop that changes it (a card
\* of a project dropped on the pool) and differ on another (the same card
\* dropped on another project).
C29_Witness ==
    /\ \E q \in Requests :
           /\ PoolInvolved(q)
           /\ q.sourceProjectId \in DOMAIN assignments
           /\ handleDrop(4, assignments, q).new # assignments
           /\ SameDrop(q)
    /\ \E q \in Requests : ~PoolInvolved(q) /\ ~SameDrop(q)
    /\ IsDrop

\* --------------------------------------------------------------- C30
SaveOps == {"save", "saveSkipped"}

\* All pools and the project list are empty.
IsEmptyModel ==
    /\ programmers = <<>>
    /\ qas = <<>>
    /\ projectManagers = <<>>
    /\ projectLeads = <<>>
    /\ projects = <<>>

\* The blob of the store holds the current model, field by field.
StoreHoldsModel ==
    /\ storage.stored
    /\ storage.parses
    /\ DOMAIN storage.value = FieldsOfApp
    /\ \A f \in FieldsOfApp : storage.value[f] = Model[f]

====
